---- MODULE Spec2Model ----
(***************************************************************************)
(* Model of backend/services/proactive_notification_engine.py: the         *)
(* ProactiveNotificationEngine singleton (store, delivery history), its    *)
(* decision policy, channel selection, retrieval, flag mutation, bulk      *)
(* clear and digest, driven by the callers in backend/routers/agents.py.   *)
(* Time is the wall clock in ticks; TicksPerHour ticks make one hour.      *)
(***************************************************************************)
EXTENDS Integers, Sequences, FiniteSets, TLC

\* ---------------------------------------------------------------- bounds
MaxSends == 2
MaxElapsed == 1
TicksPerHour == 1

\* ------------------------------------------------------ program constants
RateLimit == 5
ActiveFrom == 9
ActiveUntil == 22
DefaultLimit == 50
DigestTop == 5

\* ------------------------------------------------------------ enumerations
\* NotificationUrgency: member name -> .value
NotificationUrgency ==
    [CRITICAL |-> "critical", HIGH |-> "high", MEDIUM |-> "medium", LOW |-> "low"]

Urgency == DOMAIN NotificationUrgency

\* NotificationChannel: member name -> .value
NotificationChannel ==
    [PUSH |-> "push", IN_APP |-> "in_app", EMAIL |-> "email", SMS |-> "sms"]

\* ------------------------------------------------------------------ inputs
Users == {"u1", "u2"}

\* An optional argument: absent (Python None) or a value.
None(empty) == [some |-> FALSE, val |-> empty]
Some(v) == [some |-> TRUE, val |-> v]

\* A message is text; the digest's text is a head line with a count and bullets.
Text(head, n, bullets) == [head |-> head, count |-> n, bullets |-> bullets]

\* a float, written as the ratio num/den
Float(num, den) == [num |-> num, den |-> den]

\* Requests as the callers build them: the three demo endpoints of
\* routers/agents.py (the title's leading emoji is outside the character set
\* of the module and is left out) and an informational one for the fourth
\* urgency. A dict is the set of its (key, value) pairs.
ReqBudget ==
    [title |-> "Budget Alert: Food Category",
     message |-> Text("You've spent ₹8,500 of ₹10,000 food budget (85%). At this pace, you'll exceed by ₹2,300. Suggested action: Limit dining out to ₹500 for next 10 days.", 0, <<>>),
     urgency |-> "HIGH",
     agent_name |-> "budget_guardian",
     action_buttons |-> Some(<<[label |-> "Accept Suggestion", action |-> "accept_budget_plan"],
                               [label |-> "Adjust Budget", action |-> "adjust_budget"],
                               [label |-> "Ignore", action |-> "dismiss"]>>),
     data |-> Some({<<"category", "Food">>, <<"current", 8500>>,
                    <<"budget", 10000>>, <<"percentage", 85>>})]

ReqGst ==
    [title |-> "GST Compliance Warning",
     message |-> Text("Your yearly income is ₹18,50,000 (92.5% of ₹20,00,000 threshold). Only ₹1,50,000 away from mandatory GST registration. Prepare documents now.", 0, <<>>),
     urgency |-> "CRITICAL",
     agent_name |-> "compliance_monitor",
     action_buttons |-> Some(<<[label |-> "View Details", action |-> "view_gst_details"],
                               [label |-> "Set Reminder", action |-> "set_reminder"],
                               [label |-> "Talk to AI", action |-> "open_chat"]>>),
     data |-> Some({<<"current_income", 1850000>>, <<"threshold", 2000000>>,
                    <<"percentage", Float(925, 10)>>})]

ReqSavings ==
    [title |-> "Savings Opportunity Detected",
     message |-> Text("I detected ₹5,000 surplus this month! Smart allocation: ₹3,000 → Emergency Fund (60% of goal), ₹2,000 → ELSS (tax saving + growth).", 0, <<>>),
     urgency |-> "MEDIUM",
     agent_name |-> "savings_optimizer",
     action_buttons |-> Some(<<[label |-> "Auto-Save", action |-> "auto_save"],
                               [label |-> "Customize", action |-> "customize_savings"],
                               [label |-> "Skip This Month", action |-> "skip"]>>),
     data |-> Some({<<"surplus", 5000>>, <<"emergency_allocation", 3000>>,
                    <<"investment_allocation", 2000>>})]

ReqInfo ==
    [title |-> "Goal reached",
     message |-> Text("emergency fund complete", 0, <<>>),
     urgency |-> "LOW",
     agent_name |-> "savings_optimizer",
     action_buttons |-> None(<<>>),
     data |-> Some({})]

Requests == {ReqBudget, ReqGst, ReqSavings, ReqInfo}

\* ------------------------------------------------------------------- state
VARIABLES
    notifications,         \* self.notifications: the store, a list
    notification_history,  \* self.notification_history: delivery records, a list
    dispatched,            \* the calls made to the channel senders, in order
    raised,                \* the exception the last call raised, "none" if it returned
    now,                   \* the wall clock, in ticks
    boot,                  \* the clock reading at the initial state
    loaded,                \* the number of delivery records at the initial state
    handlers,              \* the request handlers in flight and the event loop
    solo                   \* the engine of a second run that gets one user's calls only

vars ==
    <<notifications, notification_history, dispatched, raised, now, boot, loaded,
      handlers, solo>>

\* the request handlers of one run
Handlers == {"h1", "h2"}

\* no request has arrived
IdleHandlers ==
    [running |-> {},
     pc |-> [h \in Handlers |-> "idle"],
     job |-> [h \in Handlers |-> <<>>]]

\* the second run has not started: its engine is as constructed
NoSolo ==
    [notifications |-> <<>>, history |-> <<>>,
     last |-> [op |-> "none", both |-> FALSE, alone |-> FALSE]]

\* ------------------------------------------------------------------- clock
\* The clock readings of one call, in the order the code takes them: for the
\* id (line 42), for created_at (line 49), for the cutoff of the rate window
\* (line 273), for the hour (line 162) and for sent_at (line 133). The clock
\* may advance between two readings.
Clock(a, b, c, d, e) ==
    [id |-> a, created_at |-> b, cutoff |-> c, hour |-> d, sent_at |-> e]

ReadingOrder == <<"id", "created_at", "cutoff", "hour", "sent_at">>

\* a call during which the clock stands still at t
Still(t) == Clock(t, t, t, t, t)

\* the readings a call may take when it starts at clock t0
Readings(t0) ==
    LET T == t0..(boot + MaxElapsed)
    IN  {t \in [id : {t0}, created_at : T, cutoff : T, hour : T, sent_at : T] :
            /\ t.created_at <= t.cutoff
            /\ t.cutoff <= t.hour
            /\ t.hour <= t.sent_at}

\* a reading the call does not take is written as the reading before it, so
\* that t.sent_at is the clock when the call returns
Canonical(t, taken) ==
    \A i \in 2..Len(ReadingOrder) :
        ReadingOrder[i] \notin taken => t[ReadingOrder[i]] = t[ReadingOrder[i - 1]]

\* ----------------------------------------------------------------- helpers
Min(a, b) == IF a <= b THEN a ELSE b
Max(a, b) == IF a >= b THEN a ELSE b

\* datetime.now().hour
HourOf(t) == (t \div TicksPerHour) % 24

\* datetime.isoformat(): the rendered date and time of day
IsoFormat(t) ==
    [day |-> t \div (24 * TicksPerHour), hour |-> HourOf(t), tick |-> t % TicksPerHour]

\* f"notif_{datetime.now().timestamp()}"
NotifId(t) == <<"notif_", t>>

\* ProactiveNotification.__init__, with the clock readings t
NewNotification(req, urgency, t) ==
    [id |-> NotifId(t.id),
     title |-> req.title,
     message |-> req.message,
     urgency |-> urgency,
     agent_name |-> req.agent_name,
     action_buttons |-> IF req.action_buttons.some THEN req.action_buttons.val ELSE <<>>,
     data |-> IF req.data.some THEN req.data.val ELSE {},
     created_at |-> t.created_at,
     read |-> FALSE,
     dismissed |-> FALSE]

\* ProactiveNotification.to_dict (urgency.value fails on a non-member)
ToDict(n) ==
    [id |-> n.id,
     title |-> n.title,
     message |-> n.message,
     urgency |-> NotificationUrgency[n.urgency],
     agent_name |-> n.agent_name,
     action_buttons |-> n.action_buttons,
     data |-> n.data,
     created_at |-> IsoFormat(n.created_at),
     read |-> n.read,
     dismissed |-> n.dismissed]

\* ---------------------------------------------------------- decision policy
\* a variant of _get_recent_notifications that forgets the user filter
GetRecentAnyUser(history, user_id, hours, t) ==
    LET cutoff == t - hours * TicksPerHour
    IN  SelectSeq(history, LAMBDA h : h.sent_at > cutoff)

\* _get_recent_notifications(user_id, hours), evaluated at clock t
GetRecentNotifications(history, user_id, hours, t) ==
    LET cutoff == t - hours * TicksPerHour
    IN  SelectSeq(history, LAMBDA h : h.user_id = user_id /\ h.sent_at > cutoff)

\* the throttle and hour rules of _should_send_notification, without its
\* first rule and with the evening bound at a given hour
PolicyRules(history, user_id, urgency, t, until) ==
    IF Len(SelectSeq(history, LAMBDA h : h.user_id = user_id
                                         /\ h.sent_at > t.cutoff - TicksPerHour)) >= RateLimit
       /\ urgency # "HIGH" THEN FALSE
    ELSE IF HourOf(t.hour) < ActiveFrom \/ HourOf(t.hour) > until
         THEN urgency \in {"CRITICAL", "HIGH"}
    ELSE TRUE

\* a variant of _should_send_notification without the rule for critical
ShouldSendNoCriticalRule(history, user_id, urgency, t) ==
    PolicyRules(history, user_id, urgency, t, ActiveUntil)

\* a variant of _should_send_notification whose active hours end before 22:00
ShouldSendUntil21(history, user_id, urgency, t) ==
    urgency = "CRITICAL" \/ PolicyRules(history, user_id, urgency, t, ActiveUntil - 1)


\* a variant of _should_send_notification that throttles above 5, not from 5
ShouldSendAboveFive(history, user_id, urgency, t) ==
    IF urgency = "CRITICAL" THEN TRUE
    ELSE IF Len(GetRecentNotifications(history, user_id, 1, t.cutoff)) > RateLimit
            /\ urgency # "HIGH" THEN FALSE
    ELSE IF HourOf(t.hour) < ActiveFrom \/ HourOf(t.hour) > ActiveUntil
         THEN urgency \in {"CRITICAL", "HIGH"}
    ELSE TRUE

\* _should_send_notification(user_id, notification): the rate window is
\* computed at the reading t.cutoff, the hour is read at t.hour
ShouldSendNotification(history, user_id, urgency, t) ==
    IF urgency = "CRITICAL" THEN TRUE
    ELSE IF Len(GetRecentNotifications(history, user_id, 1, t.cutoff)) >= RateLimit
            /\ urgency # "HIGH" THEN FALSE
    ELSE IF HourOf(t.hour) < ActiveFrom \/ HourOf(t.hour) > ActiveUntil
         THEN urgency \in {"CRITICAL", "HIGH"}
    ELSE TRUE

\* the readings _should_send_notification takes: none for critical, the
\* cutoff, and the hour unless the rate rule has decided
DecisionReadings(history, user_id, urgency, t) ==
    IF urgency = "CRITICAL" THEN {}
    ELSE IF Len(GetRecentNotifications(history, user_id, 1, t.cutoff)) >= RateLimit
            /\ urgency # "HIGH" THEN {"cutoff"}
    ELSE {"cutoff", "hour"}

\* a variant of _select_channels that adds the SMS alert to critical
SelectChannelsWithSms(urgency) ==
    IF urgency = "CRITICAL" THEN <<"PUSH", "IN_APP", "EMAIL", "SMS">>
    ELSE IF urgency = "HIGH" THEN <<"PUSH", "IN_APP">>
    ELSE <<"IN_APP">>

\* _select_channels(urgency)
SelectChannels(urgency) ==
    IF urgency = "CRITICAL" THEN <<"PUSH", "IN_APP", "EMAIL">>
    ELSE IF urgency = "HIGH" THEN <<"PUSH", "IN_APP">>
    ELSE IF urgency = "MEDIUM" THEN <<"IN_APP">>
    ELSE <<"IN_APP">>

\* [c.value for c in channels]
ChannelValues(channels) == [i \in 1..Len(channels) |-> NotificationChannel[channels[i]]]

\* The channels whose sender delegates to an external collaborator.
ExternalChannels == {"PUSH", "EMAIL", "SMS"}

\* a variant of send_notification that stores before it asks the policy
SendAlwaysStores(store, history, user_id, req, t, fault) ==
    LET notification == NewNotification(req, req.urgency, t)
        approved == ShouldSendNotification(history, user_id, req.urgency, t)
        channels == SelectChannels(req.urgency)
    IN  [notifications |-> Append(store, notification),
         history |-> IF approved
                     THEN Append(history, [user_id |-> user_id,
                                           notification_id |-> notification.id,
                                           sent_at |-> t.sent_at,
                                           channels |-> ChannelValues(channels)])
                     ELSE history,
         approved |-> approved,
         notification |-> notification,
         attempted |-> IF approved THEN channels ELSE <<>>,
         taken |-> {"id", "created_at"}
                       \cup DecisionReadings(history, user_id, req.urgency, t)
                       \cup (IF approved THEN {"sent_at"} ELSE {}),
         ret |-> Some(notification), raised |-> "none"]

\* send_notification as a function of the engine state and of the clock
\* readings t the call takes: the new store and history, what was dispatched,
\* the readings taken, and what the caller gets. fault = 0: every sender
\* returns; fault = j: the sender of the j-th selected channel raises.
SendNotificationCall(store, history, user_id, req, t, fault) ==
    LET urgency == req.urgency
        notification == NewNotification(req, urgency, t)
        approved == ShouldSendNotification(history, user_id, urgency, t)
        channels == SelectChannels(urgency)
        failed == approved /\ fault \in 1..Len(channels)
        record == [user_id |-> user_id,
                   notification_id |-> notification.id,
                   sent_at |-> t.sent_at,
                   channels |-> ChannelValues(channels)]
        decided == {"id", "created_at"}
                       \cup DecisionReadings(history, user_id, urgency, t)
    IN  IF ~approved
        THEN [notifications |-> store, history |-> history, approved |-> FALSE,
              notification |-> notification,
              attempted |-> <<>>, taken |-> decided,
              ret |-> Some(notification), raised |-> "none"]
        ELSE IF failed
        THEN [notifications |-> store, history |-> history, approved |-> TRUE,
              notification |-> notification,
              attempted |-> SubSeq(channels, 1, fault), taken |-> decided,
              ret |-> None(notification), raised |-> "ChannelSendFailure"]
        ELSE [notifications |-> Append(store, notification),
              history |-> Append(history, record),
              approved |-> TRUE,
              notification |-> notification,
              attempted |-> channels, taken |-> decided \cup {"sent_at"},
              ret |-> IF urgency \in Urgency THEN Some(notification)
                      ELSE None(notification),
              raised |-> IF urgency \in Urgency THEN "none" ELSE "AttributeError"]

\* ------------------------------------------------------------ store & query
UrgencyOrder == [CRITICAL |-> 0, HIGH |-> 1, MEDIUM |-> 2, LOW |-> 3]

\* a variant of the sort key that ranks critical highest
SortKeyCriticalFirst(n) == <<3 - UrgencyOrder[n.urgency], n.created_at>>

\* key=lambda n: (urgency_order[n.urgency], n.created_at)
SortKey(n) == <<UrgencyOrder[n.urgency], n.created_at>>

\* tuple comparison a < b
KeyLess(a, b) == a[1] < b[1] \/ (a[1] = b[1] /\ a[2] < b[2])

\* list.sort(key=..., reverse=True) is stable: the notifications with the
\* largest key come first, in the order they had in s, then those with the
\* next key, and so on.
RECURSIVE SortByKeys(_, _)
SortByKeys(s, keys) ==
    IF keys = {} THEN <<>>
    ELSE LET top == CHOOSE k \in keys : \A j \in keys : ~KeyLess(k, j)
         IN  SelectSeq(s, LAMBDA n : SortKey(n) = top) \o SortByKeys(s, keys \ {top})

\* a variant of the sort: stable ascending sort, then reversal of the whole
\* list, which puts notifications of equal key in reverse store order
SortThenReverse(s) ==
    LET place(i) == 1 + Cardinality({j \in 1..Len(s) :
                                        KeyLess(SortKey(s[j]), SortKey(s[i]))})
                      + Cardinality({j \in 1..(i - 1) :
                                        SortKey(s[j]) = SortKey(s[i])})
        ascending == [k \in 1..Len(s) |->
                         s[CHOOSE i \in 1..Len(s) : place(i) = k]]
    IN  [k \in 1..Len(s) |-> ascending[Len(s) - k + 1]]

SortDescending(s) == SortByKeys(s, {SortKey(s[i]) : i \in 1..Len(s)})

\* a variant of the slice that stops one item short
SliceOneShort(s, limit) ==
    IF limit >= 0 THEN SubSeq(s, 1, Min(limit, Len(s)) - 1)
    ELSE SubSeq(s, 1, Max(Len(s) + limit, 0))

\* notifications[:limit]
Slice(s, limit) ==
    IF limit >= 0 THEN SubSeq(s, 1, Min(limit, Len(s)))
    ELSE SubSeq(s, 1, Max(Len(s) + limit, 0))

\* the lookup urgency_order[n.urgency] raises KeyError on a non-member
KeyFails(s) == \E i \in 1..Len(s) : s[i].urgency \notin Urgency


\* a variant of get_notifications that returns only what was delivered for
\* the user it is called with
GetNotificationsOwned(store, user_id, unread_only, limit) ==
    LET owned == SelectSeq(store,
                     LAMBDA n : \E j \in 1..Len(notification_history) :
                                    /\ notification_history[j].notification_id = n.id
                                    /\ notification_history[j].user_id = user_id)
        filtered == IF unread_only THEN SelectSeq(owned, LAMBDA n : ~n.read) ELSE owned
    IN  IF KeyFails(filtered)
        THEN [notifications |-> store, ret |-> <<>>, raised |-> "KeyError"]
        ELSE LET page == Slice(SortDescending(filtered), limit)
             IN  [notifications |-> store,
                  ret |-> [i \in 1..Len(page) |-> ToDict(page[i])],
                  raised |-> "none"]

\* get_notifications(user_id, unread_only, limit) as a function of the store:
\* with unread_only the sorted list is a filtered copy, without it the sorted
\* list is the store itself (sorted in place).
GetNotificationsCall(store, user_id, unread_only, limit) ==
    LET filtered == IF unread_only THEN SelectSeq(store, LAMBDA n : ~n.read) ELSE store
    IN  IF KeyFails(filtered)
        THEN [notifications |-> store, ret |-> <<>>, raised |-> "KeyError"]
        ELSE LET sorted == SortDescending(filtered)
                 page == Slice(sorted, limit)
             IN  [notifications |-> IF unread_only THEN store ELSE sorted,
                  ret |-> [i \in 1..Len(page) |-> ToDict(page[i])],
                  raised |-> "none"]


\* a variant of the id lookup that falls back to the first notification
FirstWithIdOrFirst(store, id) ==
    LET hits == {i \in 1..Len(store) : store[i].id = id}
    IN  IF hits = {} THEN (IF store = <<>> THEN 0 ELSE 1)
        ELSE CHOOSE i \in hits : \A j \in hits : i <= j

\* the first index whose notification has this id, 0 when there is none
FirstWithId(store, id) ==
    LET hits == {i \in 1..Len(store) : store[i].id = id}
    IN  IF hits = {} THEN 0 ELSE CHOOSE i \in hits : \A j \in hits : i <= j

\* a variant of mark_as_read that marks the first unread notification of the id
MarkAsReadFirstUnread(store, id) ==
    LET hits == {i \in 1..Len(store) : store[i].id = id /\ ~store[i].read}
    IN  IF hits = {} THEN store
        ELSE [store EXCEPT ![CHOOSE i \in hits : \A j \in hits : i <= j].read = TRUE]

\* mark_as_read(notification_id)
MarkAsReadCall(store, id) ==
    LET i == FirstWithId(store, id)
    IN  IF i = 0 THEN store ELSE [store EXCEPT ![i].read = TRUE]


\* a variant of dismiss_notification that removes the notification from the store
DismissRemoves(store, id) ==
    LET i == FirstWithId(store, id)
    IN  IF i = 0 THEN store
        ELSE SubSeq(store, 1, i - 1) \o SubSeq(store, i + 1, Len(store))

\* dismiss_notification(notification_id)
DismissCall(store, id) ==
    LET i == FirstWithId(store, id)
    IN  IF i = 0 THEN store ELSE [store EXCEPT ![i].dismissed = TRUE]



\* a variant of the digest request that enumerates every unread title
DigestRequestAllTitles(unread) ==
    [title |-> "Your Daily Financial Digest",
     message |-> Text("You have financial insights", Len(unread),
                      [i \in 1..Len(unread) |-> unread[i].title]),
     urgency |-> "LOW",
     agent_name |-> "digest_service",
     action_buttons |-> None(<<>>),
     data |-> None({})]

\* a variant of the digest request that goes out with high urgency
DigestRequestHigh(unread) ==
    LET top == SubSeq(unread, 1, Min(DigestTop, Len(unread)))
    IN  [title |-> "Your Daily Financial Digest",
         message |-> Text("You have financial insights", Len(unread),
                          [i \in 1..Len(top) |-> top[i].title]),
         urgency |-> "HIGH",
         agent_name |-> "digest_service",
         action_buttons |-> None(<<>>),
         data |-> None({})]

\* the request send_daily_digest builds from the unread list
DigestRequest(unread) ==
    LET top == SubSeq(unread, 1, Min(DigestTop, Len(unread)))
    IN  [title |-> "Your Daily Financial Digest",
         message |-> Text("You have financial insights", Len(unread),
                          [i \in 1..Len(top) |-> top[i].title]),
         urgency |-> "LOW",
         agent_name |-> "digest_service",
         action_buttons |-> None(<<>>),
         data |-> None({})]

\* _send_through_channel(user_id, notification, channel), once per channel
Dispatches(user_id, notification, channels) ==
    [i \in 1..Len(channels) |->
        [user_id |-> user_id, notification_id |-> notification.id,
         channel |-> channels[i]]]

\* the engine after k calls of demo_budget_alert(user_id) at clock t: a HIGH
\* notification is approved whatever the history holds, so every call appends
\* what the first call appends.
Burst(k, user_id, req, t) ==
    LET r == SendNotificationCall(<<>>, <<>>, user_id, req, Still(t), 0)
        d == Dispatches(user_id, r.notification, r.attempted)
    IN  [notifications |-> [i \in 1..k |-> r.notifications[1]],
         history |-> [i \in 1..k |-> r.history[1]],
         dispatched |-> [i \in 1..(k * Len(d)) |-> d[((i - 1) % Len(d)) + 1]]]

\* ------------------------------------------------------------------- init
\* the engine is constructed one hour before the active hours begin
BootTime == (ActiveFrom - 1) * TicksPerHour

\* The engine as constructed (line 305), the clock at 8:00 local time.
Init ==
    /\ notifications = <<>>
    /\ notification_history = <<>>
    /\ dispatched = <<>>
    /\ raised = "none"
    /\ boot = BootTime
    /\ now = boot
    /\ loaded = 0
    /\ handlers = IdleHandlers
    /\ solo = NoSolo

\* The engine at any hour of the day after a burst of k budget alerts for u1.
InitPolicy ==
    \E h \in 0..23, k \in 0..(RateLimit + 1) :
        LET b == Burst(k, "u1", ReqBudget, h * TicksPerHour)
        IN  /\ notifications = b.notifications
            /\ notification_history = b.history
            /\ dispatched = b.dispatched
            /\ raised = "none"
            /\ boot = h * TicksPerHour
            /\ now = boot
            /\ loaded = k
            /\ handlers = IdleHandlers
            /\ solo = NoSolo

\* The engine at 8:00 holding as many budget alerts as one page of list returns.
InitFull ==
    LET b == Burst(DefaultLimit, "u1", ReqBudget, BootTime)
    IN  /\ notifications = b.notifications
        /\ notification_history = b.history
        /\ dispatched = b.dispatched
        /\ raised = "none"
        /\ boot = BootTime
        /\ now = boot
        /\ loaded = DefaultLimit
        /\ handlers = IdleHandlers
        /\ solo = NoSolo

\* ----------------------------------------------------------------- actions
\* The clock advances between calls.
Tick ==
    /\ now - boot < MaxElapsed
    /\ now' = now + 1
    /\ UNCHANGED <<notifications, notification_history, dispatched, raised, boot, loaded, handlers, solo>>

\* room for one more delivery within the bound
CanSend == Len(notification_history) - loaded < MaxSends

\* nothing was delivered since the initial state
NoneSent == Len(notification_history) = loaded

\* send_notification(user_id, title, message, urgency, agent_name, action_buttons, data)
\* while the clock advances from now to t.sent_at
SendNotification(user_id, req, fault) ==
    \E t \in Readings(now) :
        LET r == SendNotificationCall(notifications, notification_history,
                                      user_id, req, t, fault)
        IN  /\ Canonical(t, r.taken)
            /\ notifications' = r.notifications
            /\ notification_history' = r.history
            /\ dispatched' = dispatched \o Dispatches(user_id, r.notification, r.attempted)
            /\ raised' = r.raised
            /\ now' = t.sent_at
            /\ UNCHANGED <<boot, loaded, handlers, solo>>

Submit ==
    /\ CanSend
    /\ \E user_id \in Users, req \in Requests : SendNotification(user_id, req, 0)

SubmitOnce ==
    /\ NoneSent
    /\ \E user_id \in Users, req \in Requests : SendNotification(user_id, req, 0)

\* the number of sender calls the delivery records account for
RECURSIVE ChannelCount(_)
ChannelCount(history) ==
    IF history = <<>> THEN 0
    ELSE Len(Head(history).channels) + ChannelCount(Tail(history))

\* no sender has raised so far
NoneFailed == Len(dispatched) = ChannelCount(notification_history)

\* a submit during which the sender of one external channel raises
SubmitFaulty ==
    /\ CanSend
    /\ NoneFailed
    /\ \E user_id \in Users, req \in Requests :
           \E fault \in 1..Len(SelectChannels(req.urgency)) :
               /\ SelectChannels(req.urgency)[fault] \in ExternalChannels
               /\ SendNotification(user_id, req, fault)

\* a submit whose urgency is no member of NotificationUrgency
ReqUntyped == [ReqInfo EXCEPT !.urgency = "urgent"]

SubmitUntyped ==
    /\ CanSend
    /\ \E user_id \in Users : SendNotification(user_id, ReqUntyped, 0)

\* the limits a caller may pass
Limits == {-1, 0, 1, DefaultLimit}

\* get_notifications(user_id, unread_only, limit)
GetNotifications(user_id, unread_only, limit) ==
    LET r == GetNotificationsCall(notifications, user_id, unread_only, limit)
    IN  /\ notifications' = r.notifications
        /\ raised' = r.raised
        /\ UNCHANGED <<notification_history, dispatched, now, boot, loaded, handlers, solo>>

\* the except branch of a route handler (agents.py lines 88-90): whatever the
\* engine raises reaches the caller as HTTPException(status_code=500)
HandlerRaised(e) == IF e = "none" THEN "none" ELSE "HTTPException"

\* the handler of GET /notifications: the engine's get_notifications inside
\* try/except
GetNotificationsHandler(user_id, unread_only, limit) ==
    LET r == GetNotificationsCall(notifications, user_id, unread_only, limit)
    IN  /\ notifications' = r.notifications
        /\ raised' = HandlerRaised(r.raised)
        /\ UNCHANGED <<notification_history, dispatched, now, boot, loaded, handlers, solo>>

\* GET /notifications for any user, all or unread only, with the default limit
List ==
    \E user_id \in Users, unread_only \in BOOLEAN :
        GetNotificationsHandler(user_id, unread_only, DefaultLimit)

\* the ids a caller may pass: any id issued so far, and one never issued
KnownIds == {NotifId(t) : t \in boot..now} \cup {NotifId(boot - 1)}

\* mark_as_read(notification_id)
MarkAsRead(id) ==
    /\ notifications' = MarkAsReadCall(notifications, id)
    /\ raised' = "none"
    /\ UNCHANGED <<notification_history, dispatched, now, boot, loaded, handlers, solo>>

MarkRead == \E id \in KnownIds : MarkAsRead(id)

\* dismiss_notification(notification_id)
DismissNotification(id) ==
    /\ notifications' = DismissCall(notifications, id)
    /\ raised' = "none"
    /\ UNCHANGED <<notification_history, dispatched, now, boot, loaded, handlers, solo>>

Dismiss == \E id \in KnownIds : DismissNotification(id)


\* a variant of clear_all_notifications that keeps what was delivered to other users
ClearOnlyUser(user_id) ==
    /\ notifications' =
           SelectSeq(notifications,
                     LAMBDA n : \E j \in 1..Len(notification_history) :
                                    /\ notification_history[j].notification_id = n.id
                                    /\ notification_history[j].user_id # user_id)
    /\ raised' = "none"
    /\ UNCHANGED <<notification_history, dispatched, now, boot, loaded, handlers, solo>>


\* a variant of clear_all_notifications that clears the delivery history too
ClearStoreAndHistory(user_id) ==
    /\ notifications' = <<>>
    /\ notification_history' = <<>>
    /\ raised' = "none"
    /\ UNCHANGED <<dispatched, now, boot, loaded, handlers, solo>>

\* clear_all_notifications(user_id)
ClearAllNotifications(user_id) ==
    /\ notifications' = <<>>
    /\ raised' = "none"
    /\ UNCHANGED <<notification_history, dispatched, now, boot, loaded, handlers, solo>>

ClearAll == \E user_id \in Users : ClearAllNotifications(user_id)

\* send_daily_digest(user_id) as a function of the engine state
SendDailyDigestCall(store, history, user_id, t) ==
    LET q == GetNotificationsCall(store, user_id, TRUE, DefaultLimit)
    IN  IF q.raised # "none"
        THEN [notifications |-> store, history |-> history, submitted |-> FALSE,
              approved |-> FALSE, dispatches |-> <<>>, taken |-> {},
              raised |-> q.raised]
        ELSE IF q.ret = <<>>
        THEN [notifications |-> store, history |-> history, submitted |-> FALSE,
              approved |-> FALSE, dispatches |-> <<>>, taken |-> {},
              raised |-> "none"]
        ELSE LET r == SendNotificationCall(store, history, user_id,
                                           DigestRequest(q.ret), t, 0)
             IN  [notifications |-> r.notifications, history |-> r.history,
                  submitted |-> TRUE, approved |-> r.approved,
                  dispatches |-> Dispatches(user_id, r.notification, r.attempted),
                  taken |-> r.taken,
                  raised |-> r.raised]

SendDailyDigest(user_id) ==
    \E t \in Readings(now) :
        LET r == SendDailyDigestCall(notifications, notification_history, user_id, t)
        IN  /\ Canonical(t, r.taken)
            /\ notifications' = r.notifications
            /\ notification_history' = r.history
            /\ dispatched' = dispatched \o r.dispatches
            /\ raised' = r.raised
            /\ now' = t.sent_at
            /\ UNCHANGED <<boot, loaded, handlers, solo>>

Digest ==
    /\ CanSend
    /\ \E user_id \in Users : SendDailyDigest(user_id)

Next ==
    \/ Tick
    \/ Submit
    \/ List
    \/ MarkRead
    \/ Dismiss
    \/ ClearAll
    \/ Digest

\* The engine from its construction, under every operation.
Spec == Init /\ [][Next]_vars

\* The decision policy at every hour of the day and after bursts of deliveries.
NextPolicy ==
    \/ Tick
    \/ SubmitOnce

SpecPolicy == InitPolicy /\ [][NextPolicy]_vars

\* A store that holds a full page, and one more submit.
NextFull ==
    \/ Tick
    \/ SubmitOnce
    \/ List
    \/ MarkRead
    \/ Dismiss

SpecFull == InitFull /\ [][NextFull]_vars

\* The engine with a channel sender that may raise.
NextFaulty ==
    \/ Next
    \/ SubmitFaulty

SpecFaulty == Init /\ [][NextFaulty]_vars

\* The engine called with an urgency outside the enumeration.
NextUntyped ==
    \/ Next
    \/ SubmitUntyped

SpecUntyped == Init /\ [][NextUntyped]_vars

\* The store under submits, list calls and the two flag operations.
NextList ==
    \/ Tick
    \/ Submit
    \/ List
    \/ MarkRead
    \/ Dismiss

SpecList == Init /\ [][NextList]_vars


\* The store shared by the users: every operation but dismiss, which no
\* retrieval looks at.
NextShared ==
    \/ Tick
    \/ Submit
    \/ List
    \/ MarkRead
    \/ ClearAll
    \/ Digest

SpecShared == Init /\ [][NextShared]_vars

\* the daily digest, while the store holds no digest yet
DigestOnce ==
    /\ \A i \in 1..Len(notifications) :
           notifications[i].agent_name # "digest_service"
    /\ Digest

\* The daily digest at every hour of the day and after bursts of deliveries.
NextDigest ==
    \/ Tick
    \/ SubmitOnce
    \/ MarkRead
    \/ DigestOnce

SpecDigest == InitPolicy /\ [][NextDigest]_vars

\* The engine at 9:00 after k savings tips for u1, each delivered in its turn.
InitTips ==
    \E k \in 0..RateLimit :
        LET b == Burst(k, "u1", ReqSavings, ActiveFrom * TicksPerHour)
        IN  /\ notifications = b.notifications
            /\ notification_history = b.history
            /\ dispatched = b.dispatched
            /\ raised = "none"
            /\ boot = ActiveFrom * TicksPerHour
            /\ now = boot
            /\ loaded = k
            /\ handlers = IdleHandlers
            /\ solo = NoSolo

\* Submits and digests within an hour that has seen medium deliveries.
NextTips ==
    \/ Tick
    \/ Submit
    \/ Digest

SpecTips == InitTips /\ [][NextTips]_vars

\* ------------------------------------------------- requests in flight
\* The route handlers are coroutines (async def) that call the engine's plain
\* methods without awaiting anything: a handler that has started runs
\* send_notification to its end before the event loop starts another one.

\* the event loop starts the handler h only when no handler is running
CanStart(h) == handlers.running = {}

\* A caller that runs on a thread of its own (section 5 of the specification:
\* "multiple requests arrive concurrently"; the scheduler imported at
\* agents.py line 10 is such a caller): send_notification takes no lock, so
\* nothing makes the call wait for a call in progress.
CanStartThread(h) == TRUE

\* The engine at 9:00 after a burst of k budget alerts for u1, no request yet.
InitRequests ==
    \E k \in 0..RateLimit :
        LET b == Burst(k, "u1", ReqBudget, ActiveFrom * TicksPerHour)
        IN  /\ notifications = b.notifications
            /\ notification_history = b.history
            /\ dispatched = b.dispatched
            /\ raised = "none"
            /\ boot = ActiveFrom * TicksPerHour
            /\ now = boot
            /\ loaded = k
            /\ handlers = IdleHandlers
            /\ solo = NoSolo

\* Every operation, after bursts of deliveries within the running hour.
NextBurst ==
    \/ Tick
    \/ SubmitOnce
    \/ List
    \/ MarkRead
    \/ Dismiss
    \/ ClearAll
    \/ DigestOnce

SpecBurst == InitRequests /\ [][NextBurst]_vars

\* a submit request arrives; its call has not started yet
Arrive(h) ==
    /\ handlers.pc[h] = "idle"
    /\ \E user_id \in Users, req \in Requests :
           handlers' = [handlers EXCEPT
               !.pc[h] = "pending",
               !.job[h] = [user_id |-> user_id, req |-> req,
                           overlaps |-> {g \in Handlers :
                                            handlers.pc[g] \notin {"idle", "done"}}]]
    /\ UNCHANGED <<notifications, notification_history, dispatched, raised,
                   now, boot, loaded, solo>>

\* send_notification, lines 110-120: the notification is created and the
\* decision is taken on the history as it is now, while the clock advances
DecideStep(h) ==
    /\ handlers.pc[h] = "pending"
    /\ \E t \in Readings(now) :
           LET job == handlers.job[h]
               approved == ShouldSendNotification(notification_history, job.user_id,
                                                  job.req.urgency, t)
           IN  /\ Canonical(t, {"id", "created_at"}
                                    \cup DecisionReadings(notification_history,
                                                          job.user_id, job.req.urgency, t))
               /\ handlers' = [handlers EXCEPT
                      !.running = @ \cup {h},
                      !.pc[h] = IF approved THEN "send" ELSE "return",
                      !.job[h] = [user_id |-> job.user_id, req |-> job.req,
                                  overlaps |-> job.overlaps,
                                  notification |-> NewNotification(job.req,
                                                                   job.req.urgency, t),
                                  approved |-> approved,
                                  cutoff |-> t.cutoff,
                                  stored |-> Len(notifications),
                                  recorded |-> Len(notification_history)]]
               /\ now' = t.sent_at
    /\ UNCHANGED <<notifications, notification_history, dispatched, raised,
                   boot, loaded, solo>>

\* the call made by a route handler on the event loop
Decide(h) == CanStart(h) /\ DecideStep(h)

\* lines 122-126: the selected channels, in order
SendChannels(h) ==
    /\ handlers.pc[h] = "send"
    /\ h \in handlers.running
    /\ dispatched' = dispatched \o
           Dispatches(handlers.job[h].user_id, handlers.job[h].notification,
                      SelectChannels(handlers.job[h].req.urgency))
    /\ handlers' = [handlers EXCEPT !.pc[h] = "store"]
    /\ UNCHANGED <<notifications, notification_history, raised, now, boot, loaded, solo>>

\* line 129: self.notifications.append(notification)
AppendStore(h) ==
    /\ handlers.pc[h] = "store"
    /\ h \in handlers.running
    /\ notifications' = Append(notifications, handlers.job[h].notification)
    /\ handlers' = [handlers EXCEPT !.pc[h] = "record"]
    /\ UNCHANGED <<notification_history, dispatched, raised, now, boot, loaded, solo>>

\* lines 130-135: self.notification_history.append({...})
AppendHistory(h) ==
    /\ handlers.pc[h] = "record"
    /\ h \in handlers.running
    /\ notification_history' = Append(notification_history,
           [user_id |-> handlers.job[h].user_id,
            notification_id |-> handlers.job[h].notification.id,
            sent_at |-> now,
            channels |-> ChannelValues(SelectChannels(handlers.job[h].req.urgency))])
    /\ handlers' = [handlers EXCEPT !.pc[h] = "return"]
    /\ UNCHANGED <<notifications, dispatched, raised, now, boot, loaded, solo>>

\* line 141 and the handler's return: the event loop is free again
Return(h) ==
    /\ handlers.pc[h] = "return"
    /\ h \in handlers.running
    /\ handlers' = [handlers EXCEPT !.running = @ \ {h}, !.pc[h] = "done"]
    /\ raised' = "none"
    /\ UNCHANGED <<notifications, notification_history, dispatched, now, boot, loaded, solo>>

\* Submit requests that arrive while others are in flight.
NextRequests ==
    \/ Tick
    \/ \E h \in Handlers : Arrive(h)
    \/ \E h \in Handlers : Decide(h)
    \/ \E h \in Handlers : SendChannels(h)
    \/ \E h \in Handlers : AppendStore(h)
    \/ \E h \in Handlers : AppendHistory(h)
    \/ \E h \in Handlers : Return(h)

SpecRequests == InitRequests /\ [][NextRequests]_vars

\* ------------------------------------------------- a call on a thread
\* A call of send_notification on a thread can be suspended between any two
\* of its operations on what the threads share, the clock and the two lists.
\* Each action below is one such operation; job holds the locals of the call
\* as far as it has assigned them.

\* the locals of a call, with the ones in extra assigned
Bind(job, extra) ==
    [k \in DOMAIN job \cup DOMAIN extra |->
        IF k \in DOMAIN extra THEN extra[k] ELSE job[k]]

\* the number of passes the loop at lines 125-126 has made
Sent(job) == IF "sent" \in DOMAIN job THEN job.sent ELSE 0

\* line 42, in the constructor called at line 110: the clock is read for the id
ReadId(h) ==
    /\ handlers.pc[h] = "pending"
    /\ CanStartThread(h)
    /\ handlers' = [handlers EXCEPT
           !.running = @ \cup {h},
           !.pc[h] = "created",
           !.job[h] = Bind(@, [id |-> now])]
    /\ UNCHANGED <<notifications, notification_history, dispatched, raised,
                   now, boot, loaded, solo>>

\* line 49: the clock is read for created_at and the notification is complete;
\* lines 120 and 151-152: a critical notification is approved without a look
\* at the history or the clock
ReadCreatedAt(h) ==
    /\ handlers.pc[h] = "created"
    /\ LET job == handlers.job[h]
           t == Clock(job.id, now, now, now, now)
           made == [user_id |-> job.user_id, req |-> job.req,
                    overlaps |-> job.overlaps,
                    notification |-> NewNotification(job.req, job.req.urgency, t)]
       IN  handlers' = [handlers EXCEPT
               !.pc[h] = IF job.req.urgency = "CRITICAL" THEN "send" ELSE "cutoff",
               !.job[h] = IF job.req.urgency = "CRITICAL"
                          THEN Bind(made, [approved |-> TRUE,
                                           cutoff |-> now,
                                           stored |-> Len(notifications),
                                           recorded |-> Len(notification_history)])
                          ELSE made]
    /\ UNCHANGED <<notifications, notification_history, dispatched, raised,
                   now, boot, loaded, solo>>

\* line 273: the clock is read for the cutoff of the rate window
ReadCutoff(h) ==
    /\ handlers.pc[h] = "cutoff"
    /\ handlers' = [handlers EXCEPT
           !.pc[h] = "scan",
           !.job[h] = Bind(@, [cutoff |-> now])]
    /\ UNCHANGED <<notifications, notification_history, dispatched, raised,
                   now, boot, loaded, solo>>

\* lines 275-278 and 158-159: the history is read as it is now, and the rate
\* rule holds back what is not high for a user with 5 or more recent records
ReadHistory(h) ==
    /\ handlers.pc[h] = "scan"
    /\ LET job == handlers.job[h]
           seen == [stored |-> Len(notifications),
                    recorded |-> Len(notification_history)]
           held == /\ Len(GetRecentNotifications(notification_history, job.user_id,
                                                 1, job.cutoff)) >= RateLimit
                   /\ job.req.urgency # "HIGH"
       IN  handlers' = [handlers EXCEPT
               !.pc[h] = IF held THEN "return" ELSE "hour",
               !.job[h] = IF held THEN Bind(Bind(job, seen), [approved |-> FALSE])
                          ELSE Bind(job, seen)]
    /\ UNCHANGED <<notifications, notification_history, dispatched, raised,
                   now, boot, loaded, solo>>

\* lines 162-167: the clock is read for the hour; outside the active hours
\* only critical and high are approved
ReadHour(h) ==
    /\ handlers.pc[h] = "hour"
    /\ LET job == handlers.job[h]
           approved == IF HourOf(now) < ActiveFrom \/ HourOf(now) > ActiveUntil
                       THEN job.req.urgency \in {"CRITICAL", "HIGH"}
                       ELSE TRUE
       IN  handlers' = [handlers EXCEPT
               !.pc[h] = IF approved THEN "send" ELSE "return",
               !.job[h] = Bind(job, [approved |-> approved])]
    /\ UNCHANGED <<notifications, notification_history, dispatched, raised,
                   now, boot, loaded, solo>>

\* lines 121-126: one pass of the loop over the selected channels, the call
\* of one sender
SendChannel(h) ==
    /\ handlers.pc[h] = "send"
    /\ h \in handlers.running
    /\ LET job == handlers.job[h]
           channels == SelectChannels(job.req.urgency)
           k == Sent(job) + 1
       IN  /\ dispatched' = dispatched \o
                  Dispatches(job.user_id, job.notification, <<channels[k]>>)
           /\ handlers' = [handlers EXCEPT
                  !.pc[h] = IF k = Len(channels) THEN "store" ELSE "send",
                  !.job[h] = Bind(job, [sent |-> k])]
    /\ UNCHANGED <<notifications, notification_history, raised, now, boot, loaded, solo>>

\* line 129: self.notifications.append(notification)
StoreNotification(h) ==
    /\ handlers.pc[h] = "store"
    /\ h \in handlers.running
    /\ "sent" \in DOMAIN handlers.job[h]
    /\ notifications' = Append(notifications, handlers.job[h].notification)
    /\ handlers' = [handlers EXCEPT !.pc[h] = "stamp"]
    /\ UNCHANGED <<notification_history, dispatched, raised, now, boot, loaded, solo>>

\* line 133: the record is built before append is called, and the clock is
\* read for its sent_at
ReadSentAt(h) ==
    /\ handlers.pc[h] = "stamp"
    /\ handlers' = [handlers EXCEPT
           !.pc[h] = "record",
           !.job[h] = Bind(@, [sent_at |-> now])]
    /\ UNCHANGED <<notifications, notification_history, dispatched, raised,
                   now, boot, loaded, solo>>

\* line 130: self.notification_history.append(the record built before)
RecordDelivery(h) ==
    /\ handlers.pc[h] = "record"
    /\ h \in handlers.running
    /\ "sent_at" \in DOMAIN handlers.job[h]
    /\ notification_history' = Append(notification_history,
           [user_id |-> handlers.job[h].user_id,
            notification_id |-> handlers.job[h].notification.id,
            sent_at |-> handlers.job[h].sent_at,
            channels |-> ChannelValues(SelectChannels(handlers.job[h].req.urgency))])
    /\ handlers' = [handlers EXCEPT !.pc[h] = "return"]
    /\ UNCHANGED <<notifications, dispatched, raised, now, boot, loaded, solo>>

\* Submit calls made on threads: the operations of calls in progress
\* interleave, and the clock advances between any two of them.
NextThreads ==
    \/ Tick
    \/ \E h \in Handlers : Arrive(h)
    \/ \E h \in Handlers : ReadId(h)
    \/ \E h \in Handlers : ReadCreatedAt(h)
    \/ \E h \in Handlers : ReadCutoff(h)
    \/ \E h \in Handlers : ReadHistory(h)
    \/ \E h \in Handlers : ReadHour(h)
    \/ \E h \in Handlers : SendChannel(h)
    \/ \E h \in Handlers : StoreNotification(h)
    \/ \E h \in Handlers : ReadSentAt(h)
    \/ \E h \in Handlers : RecordDelivery(h)
    \/ \E h \in Handlers : Return(h)

\* the bursts the calls on threads start from: the engine as constructed, and
\* the engine one record below the rate limit for u1
ThreadBursts == {0, RateLimit - 1}

InitThreads == InitRequests /\ loaded \in ThreadBursts

SpecThreads == InitThreads /\ [][NextThreads]_vars


\* ------------------------------------------------- two runs side by side
\* The engine twice, with the same clock readings in every call: the run in the variables
\* gets the calls issued for both users, the run in solo gets the calls
\* issued for UserA only. Both runs start from the same engine.
UserA == "u1"
UserB == "u2"

\* The two engines at 9:00 after k savings tips for UserA.
InitPair ==
    \E k \in 0..RateLimit :
        LET b == Burst(k, UserA, ReqSavings, ActiveFrom * TicksPerHour)
        IN  /\ notifications = b.notifications
            /\ notification_history = b.history
            /\ dispatched = b.dispatched
            /\ raised = "none"
            /\ boot = ActiveFrom * TicksPerHour
            /\ now = boot
            /\ loaded = k
            /\ handlers = IdleHandlers
            /\ solo = [notifications |-> b.notifications, history |-> b.history,
                       last |-> NoSolo.last]

\* the requests of the two runs: one that passes the throttle, one that does not
PairRequests == {ReqBudget, ReqSavings}

\* room for one more delivery in the second run
SoloCanSend == Len(solo.history) - loaded < MaxSends

\* send_notification(UserA, ...) in both runs
SubmitA ==
    /\ CanSend
    /\ SoloCanSend
    /\ \E req \in PairRequests, t \in Readings(now) :
           LET r == SendNotificationCall(notifications, notification_history,
                                         UserA, req, t, 0)
               s == SendNotificationCall(solo.notifications, solo.history,
                                         UserA, req, t, 0)
           IN  /\ Canonical(t, r.taken \cup s.taken)
               /\ now' = t.sent_at
               /\ notifications' = r.notifications
               /\ notification_history' = r.history
               /\ dispatched' = dispatched \o Dispatches(UserA, r.notification, r.attempted)
               /\ raised' = r.raised
               /\ solo' = [notifications |-> s.notifications, history |-> s.history,
                           last |-> [op |-> "submit", both |-> r.approved,
                                     alone |-> s.approved]]
    /\ UNCHANGED <<boot, loaded, handlers>>

\* send_daily_digest(UserA) in both runs
DigestA ==
    /\ CanSend
    /\ SoloCanSend
    /\ \E t \in Readings(now) :
       LET r == SendDailyDigestCall(notifications, notification_history, UserA, t)
           s == SendDailyDigestCall(solo.notifications, solo.history, UserA, t)
       IN  /\ Canonical(t, r.taken \cup s.taken)
           /\ now' = t.sent_at
           /\ notifications' = r.notifications
           /\ notification_history' = r.history
           /\ dispatched' = dispatched \o r.dispatches
           /\ raised' = r.raised
           /\ solo' = [notifications |-> s.notifications, history |-> s.history,
                       last |-> [op |-> "digest", both |-> r.approved,
                                 alone |-> s.approved]]
    /\ UNCHANGED <<boot, loaded, handlers>>

\* mark_as_read(id) by UserA in both runs
MarkReadA ==
    /\ \E id \in KnownIds :
           /\ notifications' = MarkAsReadCall(notifications, id)
           /\ solo' = [solo EXCEPT !.notifications = MarkAsReadCall(@, id)]
    /\ raised' = "none"
    /\ UNCHANGED <<notification_history, dispatched, now, boot, loaded, handlers>>

\* clear_all_notifications(UserA) in both runs
ClearA ==
    /\ notifications' = <<>>
    /\ solo' = [solo EXCEPT !.notifications = <<>>]
    /\ raised' = "none"
    /\ UNCHANGED <<notification_history, dispatched, now, boot, loaded, handlers>>

\* the calls issued for UserB reach the first run only; mark_as_read and
\* dismiss_notification take no user, MarkRead and Dismiss are UserB's
SubmitB == CanSend /\ \E req \in PairRequests : SendNotification(UserB, req, 0)
DigestB == CanSend /\ SendDailyDigest(UserB)
ClearB == ClearAllNotifications(UserB)

\* Two runs that agree on the clock and on the calls issued for UserA.
NextPair ==
    \/ Tick
    \/ SubmitA
    \/ DigestA
    \/ MarkReadA
    \/ ClearA
    \/ SubmitB
    \/ DigestB
    \/ MarkRead
    \/ Dismiss
    \/ ClearB

SpecPair == InitPair /\ [][NextPair]_vars

\* ================================================================== claims
\* the delivery records of user u with sent_at in the hour that ends at clock t,
\* among the first k records
RecentCount(u, t, k) ==
    Cardinality({i \in 1..k : /\ notification_history[i].user_id = u
                              /\ notification_history[i].sent_at > t - TicksPerHour})

ActiveHour(t) == HourOf(t) >= ActiveFrom /\ HourOf(t) <= ActiveUntil

\* what a submit of req for u would do in the current state, with the clock
\* readings t
TryAt(u, req, t) ==
    SendNotificationCall(notifications, notification_history, u, req, t, 0)

\* the same while the clock stands still
Try(u, req) == TryAt(u, req, Still(now))

Delivered(r) ==
    /\ r.approved
    /\ Len(r.notifications) = Len(notifications) + 1
    /\ Len(r.history) = Len(notification_history) + 1

Suppressed(r) ==
    /\ ~r.approved
    /\ r.notifications = notifications
    /\ r.history = notification_history

\* the last delivery record, appended since the initial state
LastRecord == notification_history[Len(notification_history)]
SentSinceInit == Len(notification_history) > loaded

\* C1: a critical notification is delivered for every user, whatever the
\* delivery history holds, whatever the local hour is and however the clock
\* advances during the call.
C1_CriticalAlwaysDelivered ==
    \A u \in Users, t \in Readings(now) :
        /\ ShouldSendNotification(notification_history, u, "CRITICAL", t)
        /\ Delivered(TryAt(u, ReqGst, t))
        /\ TryAt(u, ReqGst, t).notifications
               = Append(notifications, NewNotification(ReqGst, "CRITICAL", t))

\* a critical notification was delivered outside the active hours to a user
\* who had 5 or more deliveries in the trailing hour
C1_Witness ==
    /\ SentSinceInit
    /\ LastRecord.channels = <<"push", "in_app", "email">>
    /\ ~ActiveHour(LastRecord.sent_at)
    /\ RecentCount(LastRecord.user_id, LastRecord.sent_at,
                   Len(notification_history) - 1) >= RateLimit

\* C2: with 5 or more delivery records of user u in the hour that ends when
\* the policy computes its rate window, a medium or low submit for u is
\* suppressed and a high submit for u is delivered, at any hour; records of
\* other users and records an hour old or older do not count: a user with
\* fewer than 5 such records is not throttled by them.
C2_ThrottleAfterFive ==
    \A u \in Users, t \in Readings(now) :
        LET n == RecentCount(u, t.cutoff, Len(notification_history))
        IN  /\ n >= RateLimit =>
                /\ Suppressed(TryAt(u, ReqSavings, t))
                /\ Suppressed(TryAt(u, ReqInfo, t))
                /\ Delivered(TryAt(u, ReqBudget, t))
            /\ (n < RateLimit /\ Len(notification_history) >= RateLimit
                /\ ActiveHour(t.hour)) =>
                /\ Delivered(TryAt(u, ReqSavings, t))
                /\ Delivered(TryAt(u, ReqInfo, t))

\* a high notification was delivered to a user who had 5 or more deliveries in
\* the trailing hour, and a medium one for that user is suppressed now
C2_Witness ==
    /\ SentSinceInit
    /\ LastRecord.channels = <<"push", "in_app">>
    /\ RecentCount(LastRecord.user_id, LastRecord.sent_at,
                   Len(notification_history) - 1) >= RateLimit
    /\ Suppressed(Try(LastRecord.user_id, ReqSavings))
    /\ \E v \in Users : Delivered(Try(v, ReqSavings))

\* C3: for a user with fewer than 5 delivery records in the trailing hour a
\* medium or low notification is delivered iff the local hour h the policy
\* reads has 9 <= h <= 22, and a critical or high one is delivered at every
\* hour.
C3_ActiveHoursWindow ==
    \A u \in Users, t \in Readings(now) :
        RecentCount(u, t.cutoff, Len(notification_history)) < RateLimit =>
            /\ IF ActiveHour(t.hour)
               THEN /\ Delivered(TryAt(u, ReqSavings, t))
                    /\ Delivered(TryAt(u, ReqInfo, t))
               ELSE /\ Suppressed(TryAt(u, ReqSavings, t))
                    /\ Suppressed(TryAt(u, ReqInfo, t))
            /\ Delivered(TryAt(u, ReqGst, t))
            /\ Delivered(TryAt(u, ReqBudget, t))

\* a medium or low notification was delivered at 22:00, the last active hour
C3_Witness ==
    /\ SentSinceInit
    /\ LastRecord.channels = <<"in_app">>
    /\ HourOf(LastRecord.sent_at) = ActiveUntil
    /\ RecentCount(LastRecord.user_id, LastRecord.sent_at,
                   Len(notification_history) - 1) < RateLimit

\* C4: every submit returns the notification it created; the notification is
\* appended to the store, with exactly one delivery record, iff the policy
\* approved it; a suppressed submit changes nothing, and the store grows only
\* by the notification an approved submit has just created, so that nothing
\* suppressed is stored, listed or digested later.
C4_StoredIffApproved ==
    [][/\ \A u \in Users, req \in Requests :
            (/\ vars' # vars
             /\ Len(notifications') - Len(notifications) \in {0, 1}
             /\ Len(notifications') = Len(notifications) =>
                    notifications' = notifications
             /\ SendNotification(u, req, 0)) =>
                \E t \in Readings(now) :
                    LET n == NewNotification(req, req.urgency, t)
                    IN  /\ t.sent_at = now'
                        /\ TryAt(u, req, t).ret = Some(n)
                        /\ IF ShouldSendNotification(notification_history, u,
                                                     req.urgency, t)
                           THEN /\ notifications' = Append(notifications, n)
                                /\ Len(notification_history')
                                       = Len(notification_history) + 1
                                /\ SubSeq(notification_history', 1,
                                          Len(notification_history))
                                       = notification_history
                                /\ notification_history'[Len(notification_history')].user_id = u
                                /\ notification_history'[Len(notification_history')].notification_id
                                       = n.id
                           ELSE UNCHANGED <<notifications, notification_history,
                                            dispatched>>
       /\ (Len(notifications') > Len(notifications)
           \/ notification_history' # notification_history) =>
            LET x == notifications'[Len(notifications')]
                h == notification_history'[Len(notification_history')]
            IN  /\ notifications' = Append(notifications, x)
                /\ notification_history' = Append(notification_history, h)
                /\ ~x.read /\ ~x.dismissed
                /\ h.notification_id = x.id /\ h.sent_at = now'
                /\ \E t \in Readings(now) :
                       /\ x.id = NotifId(t.id)
                       /\ x.created_at = t.created_at
                       /\ h.sent_at = t.sent_at
                       /\ ShouldSendNotification(notification_history, h.user_id,
                                                 x.urgency, t)
      ]_vars

\* outside the active hours the store holds a delivered notification with its
\* delivery record, and a medium submit would be suppressed
C4_Witness ==
    /\ ~ActiveHour(now)
    /\ Len(notifications) = 1
    /\ Len(notification_history) = 1
    /\ notification_history[1].notification_id = notifications[1].id
    /\ \A u \in Users : Suppressed(Try(u, ReqSavings))
    /\ \A u \in Users : Try(u, ReqSavings).ret
                           = Some(NewNotification(ReqSavings, "MEDIUM", Still(now)))

\* the channel table of the claim, by urgency
C5_Table ==
    [CRITICAL |-> <<"push", "in_app", "email">>,
     HIGH |-> <<"push", "in_app">>,
     MEDIUM |-> <<"in_app">>,
     LOW |-> <<"in_app">>]

\* the enumeration member with a given value
C5_Member(value) == CHOOSE c \in DOMAIN NotificationChannel : NotificationChannel[c] = value

\* C5: an approved submit dispatches, in order and each once, push, in-app and
\* email for critical, push and in-app for high, in-app for medium and for low;
\* its delivery record carries exactly this list; nothing else is dispatched,
\* and sms never is.
C5_ChannelsByUrgency ==
    [][/\ Len(notification_history') > Len(notification_history) =>
            LET x == notifications'[Len(notifications')]
                h == notification_history'[Len(notification_history')]
                t == C5_Table[x.urgency]
            IN  /\ h.channels = t
                /\ dispatched' = dispatched \o
                       [i \in 1..Len(t) |->
                           [user_id |-> h.user_id, notification_id |-> x.id,
                            channel |-> C5_Member(t[i])]]
       /\ Len(notification_history') = Len(notification_history) =>
            dispatched' = dispatched
       /\ \A i \in 1..Len(dispatched') : dispatched'[i].channel # "SMS"
       /\ \A i \in 1..Len(notification_history') :
            \A j \in 1..Len(notification_history'[i].channels) :
                notification_history'[i].channels[j] # "sms"
      ]_vars

\* a critical and then a low notification were delivered: push, in-app and
\* email were dispatched for the first, in-app alone for the second
C5_Witness ==
    /\ Len(notification_history) = 2
    /\ notification_history[1].channels = <<"push", "in_app", "email">>
    /\ notification_history[2].channels = <<"in_app">>
    /\ Len(notifications) = 2
    /\ notifications[2].urgency = "LOW"
    /\ [i \in 1..Len(dispatched) |-> dispatched[i].channel]
           = <<"PUSH", "IN_APP", "EMAIL", "IN_APP">>

\* C6 (as the specification states it): a failing channel send is isolated.
\* No channel failure reaches the caller of submit, and every dispatch that was
\* attempted belongs to a notification that was stored with its delivery
\* record and had all of its selected channels attempted.
C6_ChannelFailureIsolated ==
    /\ raised # "ChannelSendFailure"
    /\ Len(dispatched) = ChannelCount(notification_history)
    /\ \A i \in 1..Len(dispatched) :
           \E j \in 1..Len(notification_history) :
               /\ notification_history[j].user_id = dispatched[i].user_id
               /\ notification_history[j].notification_id
                      = dispatched[i].notification_id

\* C7 (as the specification states it): a submit with an urgency outside the
\* four levels is rejected before anything is stored, so every stored
\* notification has one of the four levels and no submit ends in an error
\* raised after the store and the delivery history were appended to.
C7_InvalidUrgencyRejected ==
    /\ \A i \in 1..Len(notifications) : notifications[i].urgency \in Urgency
    /\ raised \notin {"AttributeError", "KeyError", "HTTPException"}

\* the rank of a listed item, from the urgency value it carries
C8_Rank(d) ==
    UrgencyOrder[CHOOSE u \in Urgency : NotificationUrgency[u] = d.urgency]

\* the creation time of a listed item, from the rendered timestamp it carries
C8_Time(d) ==
    (d.created_at.day * 24 + d.created_at.hour) * TicksPerHour + d.created_at.tick

C8_Ordered(s) ==
    \A i \in 1..(Len(s) - 1) :
        \/ C8_Rank(s[i]) > C8_Rank(s[i + 1])
        \/ /\ C8_Rank(s[i]) = C8_Rank(s[i + 1])
           /\ C8_Time(s[i]) >= C8_Time(s[i + 1])

C8_Count(s, d) == Cardinality({i \in 1..Len(s) : s[i] = d})

\* C8: for every user, either filter and every limit >= 0 the list call returns
\* the first `limit` items of an ordering of the stored notifications (the
\* unread ones under unread_only, dismissed ones included) in which every
\* adjacent pair x, y has rank(x) > rank(y), or equal ranks and
\* created_at(x) >= created_at(y), with critical=0 ... low=3.
C8_ListOrdering ==
    \A u \in Users, unread_only \in BOOLEAN :
        LET base == IF unread_only
                    THEN SelectSeq(notifications, LAMBDA n : ~n.read)
                    ELSE notifications
            full == GetNotificationsCall(notifications, u, unread_only,
                                         Len(notifications)).ret
        IN  /\ Len(full) = Len(base)
            /\ \A i \in 1..Len(base) :
                   C8_Count(full, ToDict(base[i]))
                       = C8_Count([k \in 1..Len(base) |-> ToDict(base[k])],
                                  ToDict(base[i]))
            /\ C8_Ordered(full)
            /\ \A limit \in Limits :
                   limit >= 0 =>
                       LET r == GetNotificationsCall(notifications, u,
                                                     unread_only, limit)
                       IN  /\ r.raised = "none"
                           /\ r.ret = SubSeq(full, 1, Min(limit, Len(full)))

\* the store was sorted in place by a list call: a medium notification created
\* later stands before a critical one created earlier, which is read, so that
\* the unread list differs from the full list
C8_Witness ==
    /\ Len(notifications) = 2
    /\ notifications[1].urgency = "MEDIUM"
    /\ notifications[2].urgency = "CRITICAL"
    /\ notifications[1].created_at > notifications[2].created_at
    /\ notifications[2].read
    /\ ~notifications[1].read
    /\ notifications[1].dismissed

\* the six fields of a listed item the round trip is about
C9_Fields(d) ==
    <<d.title, d.message, d.urgency, d.agent_name, d.action_buttons, d.data>>

\* the same fields as submitted (an omitted optional argument is empty)
C9_Submitted(req) ==
    <<req.title, req.message, NotificationUrgency[req.urgency], req.agent_name,
      req.action_buttons.val, req.data.val>>

\* the same fields of a stored notification
C9_Stored(n) ==
    <<n.title, n.message, NotificationUrgency[n.urgency], n.agent_name,
      n.action_buttons, n.data>>

\* every stored notification is listed with its fields, as often as it is stored
C9_AllListed(store, ret) ==
    \A i \in 1..Len(store) :
        Cardinality({j \in 1..Len(ret) :
                        ret[j].id = store[i].id
                        /\ C9_Fields(ret[j]) = C9_Stored(store[i])})
            = Cardinality({k \in 1..Len(store) :
                              store[k].id = store[i].id
                              /\ C9_Stored(store[k]) = C9_Stored(store[i])})

\* an approved submit of req by u, listed with the given limit, shows the
\* submitted fields under the id of the notification it created
C9_SubmitListed(u, req, limit) ==
    LET r == Try(u, req)
        ret == GetNotificationsCall(r.notifications, u, FALSE, limit).ret
    IN  r.approved =>
            \E j \in 1..Len(ret) :
                /\ ret[j].id = r.notification.id
                /\ C9_Fields(ret[j]) = C9_Submitted(req)

\* C9 (as the specification states it): every stored notification, and every
\* notification an approved submit stores, is in the result of a full list
\* call made with the default limit, whatever the size of the store.
C9_RoundTripDefaultLimit ==
    /\ C9_AllListed(notifications,
                    GetNotificationsCall(notifications, "u1", FALSE,
                                         DefaultLimit).ret)
    /\ \A u \in Users, req \in Requests : C9_SubmitListed(u, req, DefaultLimit)

\* C9 (amended): every stored notification, and every notification an approved
\* submit stores, is in the result of a full list call whose limit is at least
\* the number of stored notifications, with title, message, urgency,
\* agent_name, action_buttons and data as submitted, whatever was marked read
\* or dismissed in between.
C9_RoundTripWithinLimit ==
    /\ \A limit \in {Len(notifications), Len(notifications) + 1} :
           C9_AllListed(notifications,
                        GetNotificationsCall(notifications, "u1", FALSE,
                                             limit).ret)
    /\ \A u \in Users, req \in Requests :
           C9_SubmitListed(u, req, Len(notifications) + 1)

\* the store holds one notification more than the default limit: a critical
\* one was delivered after 50 high ones, a list call has sorted it to the end,
\* and a notification was marked read and dismissed in between
C9_Witness ==
    /\ Len(notifications) = DefaultLimit + 1
    /\ notifications[DefaultLimit + 1].urgency = "CRITICAL"
    /\ notifications[1].urgency = "HIGH"
    /\ notifications[1].read
    /\ notifications[1].dismissed
    /\ SentSinceInit

\* C10: for every id, marking read twice leaves the store as marking read
\* once does, and dismissing twice as dismissing once; neither call touches
\* anything but the flags of the store, so the whole state is the same.
C10_Idempotent ==
    \A id \in KnownIds :
        /\ MarkAsReadCall(MarkAsReadCall(notifications, id), id)
               = MarkAsReadCall(notifications, id)
        /\ DismissCall(DismissCall(notifications, id), id)
               = DismissCall(notifications, id)
        /\ Len(MarkAsReadCall(notifications, id)) = Len(notifications)
        /\ Len(DismissCall(notifications, id)) = Len(notifications)
        /\ \A i \in 1..Len(notifications) :
               /\ [MarkAsReadCall(notifications, id)[i] EXCEPT !.read = FALSE]
                      = [notifications[i] EXCEPT !.read = FALSE]
               /\ [DismissCall(notifications, id)[i] EXCEPT !.dismissed = FALSE]
                      = [notifications[i] EXCEPT !.dismissed = FALSE]

\* two stored notifications share one id; the first has been marked read and
\* dismissed, the second is still unread and not dismissed
C10_Witness ==
    /\ Len(notifications) = 2
    /\ notifications[1].id = notifications[2].id
    /\ notifications[1].read /\ notifications[1].dismissed
    /\ ~notifications[2].read /\ ~notifications[2].dismissed

\* C11: for every id that no stored notification has (never issued, issued to
\* a suppressed notification, or removed by clearAll), markRead and dismiss
\* return normally and leave the store with all its flags as it was; they
\* never touch the delivery history.
C11_AbsentIdNoOp ==
    \A id \in KnownIds :
        (\A i \in 1..Len(notifications) : notifications[i].id # id) =>
            /\ MarkAsReadCall(notifications, id) = notifications
            /\ DismissCall(notifications, id) = notifications

\* the id of a delivered notification that clearAll removed is absent from a
\* store that holds an unread notification of another id, next to an id that
\* was never issued
C11_Witness ==
    /\ Len(notifications) = 1
    /\ ~notifications[1].read /\ ~notifications[1].dismissed
    /\ \E j \in 1..Len(notification_history) :
           /\ notification_history[j].notification_id # notifications[1].id
           /\ notification_history[j].notification_id \in KnownIds
    /\ NotifId(boot - 1) \in KnownIds

\* C12: a clearAll step, for any user id, leaves the store empty, whoever the
\* stored notifications were delivered to, and a list call on the store it
\* leaves returns the empty sequence for every user, filter and limit.
C12_ClearAllEmpties ==
    [][\A u \in Users :
           ClearAllNotifications(u) =>
               /\ notifications' = <<>>
               /\ \A v \in Users, unread_only \in BOOLEAN, limit \in Limits :
                      LET r == GetNotificationsCall(notifications', v,
                                                    unread_only, limit)
                      IN  r.ret = <<>> /\ r.raised = "none"
      ]_vars

\* the store is empty after notifications were delivered to both users
C12_Witness ==
    /\ notifications = <<>>
    /\ \A u \in Users :
           \E j \in 1..Len(notification_history) :
               notification_history[j].user_id = u
    /\ \A u \in Users :
           GetNotificationsCall(notifications, u, FALSE, DefaultLimit).ret = <<>>

\* the unread notifications of the store, in store order
C13_Unread == SelectSeq(notifications, LAMBDA n : ~n.read)

\* the policy's verdict on a low notification for user u with the clock
\* readings t, as the claim words it
C13_LowApprovedAt(u, t) ==
    /\ RecentCount(u, t.cutoff, Len(notification_history)) < RateLimit
    /\ ActiveHour(t.hour)

\* the same while the clock stands still
C13_LowApproved(u) == C13_LowApprovedAt(u, Still(now))

\* C13: a digest for user u adds nothing and changes nothing when no stored
\* notification is unread or when the policy does not approve a low
\* notification for u now (5 or more deliveries in the trailing hour, or an
\* hour outside 9..22); otherwise it appends exactly one low notification of
\* the digest service to the store and exactly one record, for u and in-app,
\* to the history.
C13_DigestZeroOrOne ==
    \A u \in Users, t \in Readings(now) :
        LET r == SendDailyDigestCall(notifications, notification_history, u, t)
        IN  IF C13_Unread = <<>> \/ ~C13_LowApprovedAt(u, t)
            THEN /\ r.notifications = notifications
                 /\ r.history = notification_history
                 /\ r.dispatches = <<>>
                 /\ r.submitted = (C13_Unread # <<>>)
            ELSE /\ Len(r.notifications) = Len(notifications) + 1
                 /\ SubSeq(r.notifications, 1, Len(notifications)) = notifications
                 /\ r.notifications[Len(r.notifications)].urgency = "LOW"
                 /\ r.notifications[Len(r.notifications)].agent_name = "digest_service"
                 /\ r.notifications[Len(r.notifications)].created_at = t.created_at
                 /\ Len(r.history) = Len(notification_history) + 1
                 /\ SubSeq(r.history, 1, Len(notification_history))
                        = notification_history
                 /\ r.history[Len(r.history)].user_id = u
                 /\ r.history[Len(r.history)].notification_id
                        = r.notifications[Len(r.notifications)].id
                 /\ r.history[Len(r.history)].channels = <<"in_app">>

\* a digest was delivered: the last stored notification is the digest's, and
\* the user it went to is now at the rate limit, so that a further digest for
\* this user is suppressed while unread notifications exist
C13_Witness ==
    /\ SentSinceInit
    /\ notifications # <<>>
    /\ notifications[Len(notifications)].agent_name = "digest_service"
    /\ LastRecord.channels = <<"in_app">>
    /\ ~C13_LowApproved(LastRecord.user_id)
    /\ C13_Unread # <<>>
    /\ \E v \in Users : C13_LowApproved(v)

\* C14: when a digest for user u is delivered with n >= 1 unread notifications
\* in the store, the message of the notification it stores enumerates exactly
\* min(n, 5) titles, the titles of the first min(n, 5) items of the unread
\* list in list order.
C14_DigestTopTitles ==
    \A u \in Users, t \in Readings(now) :
        LET r == SendDailyDigestCall(notifications, notification_history, u, t)
            listed == GetNotificationsCall(notifications, u, TRUE, DefaultLimit).ret
            n == Len(C13_Unread)
            m == Min(n, 5)
        IN  (n >= 1 /\ r.approved) =>
                LET message == r.notifications[Len(r.notifications)].message
                IN  /\ Len(message.bullets) = m
                    /\ \A i \in 1..m : message.bullets[i] = listed[i].title

\* a digest was delivered while 7 notifications were unread: its message
\* counts 7 and enumerates 5 titles, the first of them the title of the
\* notification that the unread list puts before the high alerts
C14_Witness ==
    /\ Len(notifications) = 8
    /\ notifications[8].agent_name = "digest_service"
    /\ notifications[8].message.count = 7
    /\ Len(notifications[8].message.bullets) = 5
    /\ notifications[8].message.bullets[1] = notifications[7].title
    /\ notifications[8].message.bullets[2] = notifications[1].title
    /\ notifications[7].title # notifications[1].title

\* the fields of a notification that no operation may change
C15_Core(n) ==
    <<n.id, n.title, n.message, n.urgency, n.agent_name, n.action_buttons,
      n.data, n.created_at>>

\* new holds every notification of old, each at a place of its own, with the
\* same fields and with no flag taken back
C15_Kept(old, new) ==
    \E f \in [1..Len(old) -> 1..Len(new)] :
        /\ \A i, j \in 1..Len(old) : i # j => f[i] # f[j]
        /\ \A i \in 1..Len(old) :
               /\ C15_Core(new[f[i]]) = C15_Core(old[i])
               /\ old[i].read => new[f[i]].read
               /\ old[i].dismissed => new[f[i]].dismissed

\* C15: every step other than a clearAll (submit, list, markRead, dismiss,
\* digest, the passing of time) keeps every stored notification in the store
\* with unchanged id, title, message, urgency, agent_name, action_buttons, data
\* and created_at; a dismissed notification stays, and a read or dismissed
\* flag that is true stays true.
C15_AppendOnlyStore ==
    [][\/ \E u \in Users : ClearAllNotifications(u)
       \/ notifications' = notifications
       \/ /\ Len(notifications') = Len(notifications) + 1
          /\ SubSeq(notifications', 1, Len(notifications)) = notifications
       \/ /\ Len(notifications') >= Len(notifications)
          /\ C15_Kept(notifications, notifications')
      ]_vars

\* a critical notification was dismissed and read and is still stored, behind
\* a digest that was delivered later and that a list call has moved before it
C15_Witness ==
    /\ Len(notifications) = 2
    /\ notifications[1].agent_name = "digest_service"
    /\ notifications[2].urgency = "CRITICAL"
    /\ notifications[2].dismissed
    /\ notifications[2].read
    /\ notifications[2].created_at < notifications[1].created_at

\* C16 (as the specification states it): notification ids are unique. Any two
\* notifications in the store have different ids, and any two delivery
\* records name different notifications, also when they were created at equal
\* clock readings.
C16_UniqueIds ==
    /\ \A i, j \in 1..Len(notifications) :
           i # j => notifications[i].id # notifications[j].id
    /\ \A i, j \in 1..Len(notification_history) :
           i # j => notification_history[i].notification_id
                        # notification_history[j].notification_id

\* the notifications a list call sorts: the unread ones, or the whole store
C17_Filtered(unread_only) ==
    IF unread_only THEN SelectSeq(notifications, LAMBDA n : ~n.read)
    ELSE notifications

\* the reference of the claim: stable ascending sort by (rank, created_at),
\* reversal of the whole sequence, the slice, each item rendered
C17_Reference(unread_only, limit) ==
    LET page == Slice(SortThenReverse(C17_Filtered(unread_only)), limit)
    IN  [i \in 1..Len(page) |-> ToDict(page[i])]

\* C17 (as the specification states it): for every store, filter and limit
\* the list call returns what the sort-then-reverse reference returns.
C17_SortThenReverse ==
    \A u \in Users, unread_only \in BOOLEAN, limit \in Limits :
        GetNotificationsCall(notifications, u, unread_only, limit).ret
            = C17_Reference(unread_only, limit)

\* the place of the i-th filtered notification in the list: behind every
\* notification of greater key and behind the notifications of equal key
\* that stand before it in the store
C17_Place(s, i) ==
    1 + Cardinality({j \in 1..Len(s) : KeyLess(SortKey(s[i]), SortKey(s[j]))})
      + Cardinality({j \in 1..(i - 1) : SortKey(s[j]) = SortKey(s[i])})

\* C17 (amended): for every store, filter and limit the list call returns the
\* first `limit` items of the filtered notifications sorted descending by
\* (rank, created_at) with notifications of equal urgency and created_at kept
\* in store order; this is what the sort-then-reverse reference returns
\* whenever any two filtered notifications of equal urgency and created_at
\* are equal in every field.
C17_StableDescending ==
    \A u \in Users, unread_only \in BOOLEAN :
        LET s == C17_Filtered(unread_only)
            full == GetNotificationsCall(notifications, u, unread_only,
                                         Len(notifications)).ret
        IN  /\ Len(full) = Len(s)
            /\ \A i \in 1..Len(s) : full[C17_Place(s, i)] = ToDict(s[i])
            /\ \A limit \in Limits :
                   GetNotificationsCall(notifications, u, unread_only, limit).ret
                       = Slice(full, limit)
            /\ (\A i, j \in 1..Len(s) :
                    SortKey(s[i]) = SortKey(s[j]) => s[i] = s[j])
               => full = C17_Reference(unread_only, Len(notifications))

\* two stored notifications have equal urgency and created_at; the first is
\* read and dismissed, the second is neither, and the list keeps them in store
\* order where the reference would swap them
C17_Witness ==
    /\ Len(notifications) = 2
    /\ notifications[1].urgency = notifications[2].urgency
    /\ notifications[1].created_at = notifications[2].created_at
    /\ notifications[1].read /\ ~notifications[2].read
    /\ notifications[1].dismissed /\ ~notifications[2].dismissed
    /\ GetNotificationsCall(notifications, "u1", FALSE, DefaultLimit).ret
           = <<ToDict(notifications[1]), ToDict(notifications[2])>>

\* the calls that have taken the decision
C18_Decided == {h \in Handlers : "approved" \in DOMAIN handlers.job[h]}

\* the calls that have read the history for their decision
C18_Observed ==
    {h \in Handlers : /\ "recorded" \in DOMAIN handlers.job[h]
                      /\ handlers.job[h].req.urgency # "CRITICAL"}

\* the approved calls that have appended to the store, and to the history
C18_Stored ==
    {h \in C18_Decided : handlers.job[h].approved
                         /\ handlers.pc[h] \in {"stamp", "record", "return", "done"}}

C18_Recorded ==
    {h \in C18_Decided : handlers.job[h].approved
                         /\ handlers.pc[h] \in {"return", "done"}}

\* C18 (as the specification states it): with submit calls in progress at the
\* same time and their steps interleaved, (a) no call reads the history for
\* its decision while another one has appended to the store and not yet to
\* the history, (b) whenever no call is running every stored notification has
\* its delivery record, (c) no append is lost: the store and the history hold
\* one entry per approved call that has reached the append, and (d) no medium
\* or low notification is recorded for a user who has 5 or more records in
\* the trailing hour at that moment.
C18_RequestsSerialized ==
    /\ \A h \in C18_Observed : handlers.job[h].stored = handlers.job[h].recorded
    /\ handlers.running = {} =>
           /\ Len(notifications) = Len(notification_history)
           /\ \A i \in 1..Len(notifications) :
                  \E j \in 1..Len(notification_history) :
                      notifications[i].id = notification_history[j].notification_id
    /\ Len(notifications) = loaded + Cardinality(C18_Stored)
    /\ Len(notification_history) = loaded + Cardinality(C18_Recorded)
    /\ \A h \in C18_Recorded :
           /\ \E i \in (loaded + 1)..Len(notifications) :
                  notifications[i] = handlers.job[h].notification
           /\ \E j \in (loaded + 1)..Len(notification_history) :
                  /\ notification_history[j].user_id = handlers.job[h].user_id
                  /\ notification_history[j].notification_id
                         = handlers.job[h].notification.id
    /\ \A i \in (loaded + 1)..Len(notification_history) :
           notification_history[i].channels = <<"in_app">> =>
               RecentCount(notification_history[i].user_id,
                           notification_history[i].sent_at, i - 1) < RateLimit

\* C19: every step (submit, list, markRead, dismiss, digest, clearAll, the
\* passing of time) leaves the delivery history as a prefix of the history
\* after it; the store never holds more notifications than the history holds
\* records; and a user with 5 or more records in the trailing hour is
\* throttled for medium and low also when the store has been cleared.
C19_HistoryOnlyGrows ==
    [][/\ Len(notification_history') >= Len(notification_history)
       /\ SubSeq(notification_history', 1, Len(notification_history))
              = notification_history
       /\ Len(notifications') <= Len(notification_history')
       /\ \A u \in Users, t \in Readings(now') :
              (notifications' = <<>>
               /\ Cardinality({i \in 1..Len(notification_history') :
                      /\ notification_history'[i].user_id = u
                      /\ notification_history'[i].sent_at > t.cutoff - TicksPerHour})
                      >= RateLimit) =>
                  LET r == SendNotificationCall(notifications', notification_history',
                                                u, ReqSavings, t, 0)
                      q == SendNotificationCall(notifications', notification_history',
                                                u, ReqInfo, t, 0)
                  IN  /\ ~r.approved /\ r.history = notification_history'
                      /\ ~q.approved /\ q.history = notification_history'
      ]_vars

\* the store was cleared after 5 or more deliveries to u1 within the hour: it
\* is empty, the history still holds the records, and a medium submit for u1
\* is suppressed while one for u2 is delivered
C19_Witness ==
    /\ notifications = <<>>
    /\ RecentCount("u1", now, Len(notification_history)) >= RateLimit
    /\ Suppressed(Try("u1", ReqSavings))
    /\ Delivered(Try("u2", ReqSavings))

\* the records of user u that carry the in-app channel alone (medium or low)
\* and lie within the trailing hour of the j-th record
C20_MinorWithin(u, j) ==
    {i \in 1..Len(notification_history) :
        /\ notification_history[i].user_id = u
        /\ notification_history[i].channels = <<"in_app">>
        /\ notification_history[i].sent_at <= notification_history[j].sent_at
        /\ notification_history[i].sent_at
               > notification_history[j].sent_at - TicksPerHour}

\* C20: after any sequence of submits and digests no user has 6 medium or low
\* delivery records within one trailing hour of the latest of them, and a
\* record that found 5 or more records of its user in its trailing hour is
\* the record of a critical or high delivery.
C20_HourlyCap ==
    \A j \in 1..Len(notification_history) :
        /\ Cardinality(C20_MinorWithin(notification_history[j].user_id, j)) <= 5
        /\ RecentCount(notification_history[j].user_id,
                       notification_history[j].sent_at, j - 1) >= 5
               => notification_history[j].channels # <<"in_app">>

\* u1 has 5 medium records within the hour and a high delivery on top of
\* them; a low submit for u1 is suppressed, one for u2 is delivered
C20_Witness ==
    /\ Len(notification_history) = 6
    /\ Cardinality(C20_MinorWithin("u1", 6)) = 5
    /\ LastRecord.user_id = "u1"
    /\ LastRecord.channels = <<"push", "in_app">>
    /\ Suppressed(Try("u1", ReqInfo))
    /\ Delivered(Try("u2", ReqInfo))

\* C21: throttling is per user. In two runs that agree on the clock and on
\* the calls issued for UserA, every submit for UserA gets the same decision,
\* whatever calls are issued for UserB in one of the runs.
C21_ThrottlePerUser ==
    solo.last.op = "submit" => solo.last.both = solo.last.alone

\* the users the delivery records name for the stored notification n
C22_DeliveredFor(n) ==
    {notification_history[j].user_id :
        j \in {k \in 1..Len(notification_history) :
                  notification_history[k].notification_id = n.id}}

\* the items of a sequence
C22_Items(s) == {s[i] : i \in 1..Len(s)}

\* C22: retrieval is not scoped by user. In every reachable state list returns
\* the same sequence for any two users, whatever unreadOnly and limit are; a
\* stored notification is returned by list for every user, also for the users
\* it was not delivered for; and digest for any user is sent exactly when the
\* store holds an unread notification of whatever user, counts all of them and
\* names each of them while they are at most 5.
C22_RetrievalUnscoped ==
    LET unread == SelectSeq(notifications, LAMBDA n : ~n.read)
    IN  /\ \A unread_only \in BOOLEAN, limit \in Limits :
               GetNotificationsCall(notifications, UserA, unread_only, limit)
                   = GetNotificationsCall(notifications, UserB, unread_only, limit)
        /\ \A u \in Users :
               LET listed == GetNotificationsCall(notifications, u, FALSE, DefaultLimit).ret
                   digest == SendDailyDigestCall(notifications, notification_history,
                                                 u, Still(now))
                   sent == digest.notifications[Len(digest.notifications)]
               IN  /\ Len(notifications) <= DefaultLimit
                       => \A i \in 1..Len(notifications) :
                              ToDict(notifications[i]) \in C22_Items(listed)
                   /\ digest.submitted <=> unread # <<>>
                   /\ digest.approved
                       => /\ sent.agent_name = "digest_service"
                          /\ sent.message.count = Len(unread)
                          /\ Len(unread) <= DigestTop
                              => \A i \in 1..Len(unread) :
                                     unread[i].title \in C22_Items(sent.message.bullets)

\* the digest delivered for UserA is the last stored notification; it counts
\* and names an unread notification that was delivered for UserB only, and
\* list for UserA returns that notification
C22_Witness ==
    /\ Len(notifications) >= 2
    /\ LET sent == notifications[Len(notifications)]
           record == notification_history[Len(notification_history)]
       IN  /\ sent.agent_name = "digest_service"
           /\ record.user_id = UserA
           /\ record.notification_id = sent.id
           /\ \E i \in 1..(Len(notifications) - 1) :
                  /\ C22_DeliveredFor(notifications[i]) = {UserB}
                  /\ ~notifications[i].read
                  /\ notifications[i].title \in C22_Items(sent.message.bullets)
                  /\ sent.message.count >= 1
                  /\ ToDict(notifications[i])
                         \in C22_Items(GetNotificationsCall(notifications, UserA, FALSE,
                                                            DefaultLimit).ret)

====
